---- MODULE Spec2Model ----
(***************************************************************************)
(* RigModule (src/core/module.py): the lifecycle of a rig module on top of *)
(* a scene-graph node store.                                               *)
(*                                                                         *)
(* Strings that the naming codec splits on '_' are sequences of tokens:    *)
(* the node name "arm_L_placement_grp" is <<"arm","L","placement","grp">>, *)
(* the name field "arm" is <<"arm">>.  A node is an identity (a number);   *)
(* object fields hold identities (they are message connections, which      *)
(* follow a rename), while node_name and the prefix of a persistent        *)
(* attribute are strings, which do not.                                    *)
(***************************************************************************)
EXTENDS Integers, Sequences, FiniteSets, TLC

\* ---------------------------------------------------------------- bounds
MaxNodes == 22
MaxSteps == 4
\* The calls made on a scene that starts with its modules constructed.
SceneSteps == 3

Nodes == 1..MaxNodes

\* ------------------------------------------------------------- constants
\* Python's None for an object reference / a missing id / a missing string.
NoneRef == 0
NoneId == -1
NoneStr == ""

Sides == {"M", "L", "R"}
default_side == "M"
MirrorTypes == {"Behavior", "Orientation"}
\* The registry all_rig_modules: the base class and one concrete subclass.
Classes == {"RigModule", "Chain"}
\* Base names a caller gives to the constructor or writes to the name field.
BaseNames == {"arm", "leg"}
\* The rig aggregate: its two container nodes exist before any module.
modules_group == 1
skeleton_group == 2
TheRig == 1

\* ---------------------------------------------------------- naming codec
IdToken(i) == ToString(i)
IdTokens == {IdToken(i) : i \in 0..MaxNodes}
TokenId(t) == CHOOSE i \in 0..MaxNodes : IdToken(i) = t

\* encode: base_name _ side [_ description] [_ id] _ role
name_from_metadata(md) ==
    md.base_name \o <<md.side>>
      \o (IF md.description # NoneStr THEN <<md.description>> ELSE <<>>)
      \o (IF md.id # NoneId THEN <<IdToken(md.id)>> ELSE <<>>)
      \o <<md.role>>

\* A name the codec can decode: base, side, at most description and id, role.
WellFormed(n) ==
    /\ Len(n) \in 3..5
    /\ Len(n) = 5 => n[4] \in IdTokens

\* decode: the first token is the base name, the second the side, the last
\* the role; a single middle token is an id when it is numeric.
metadata_from_name(n) ==
    LET mid == SubSeq(n, 3, Len(n) - 1)
    IN  [base_name   |-> <<n[1]>>,
         side        |-> n[2],
         role        |-> n[Len(n)],
         description |-> IF Len(mid) = 2 THEN mid[1]
                         ELSE IF Len(mid) = 1 /\ mid[1] \notin IdTokens THEN mid[1]
                         ELSE NoneStr,
         id          |-> IF Len(mid) = 2 THEN TokenId(mid[2])
                         ELSE IF Len(mid) = 1 /\ mid[1] \in IdTokens THEN TokenId(mid[1])
                         ELSE NoneId]

\* ------------------------------------------------------------ matrices
\* 4x4 matrices as om2.MMatrix holds them: four rows, acting on row
\* vectors, the translation in the fourth row.
Identity == <<<<1, 0, 0, 0>>, <<0, 1, 0, 0>>, <<0, 0, 1, 0>>, <<0, 0, 0, 1>>>>

\* om2.MMatrix.__mul__
MatMul(A, B) ==
    [i \in 1..4 |->
       [j \in 1..4 |->
          A[i][1] * B[1][j] + A[i][2] * B[2][j] + A[i][3] * B[3][j]
            + A[i][4] * B[4][j]]]

Abs(x) == IF x < 0 THEN -x ELSE x

Det3(M) ==
      M[1][1] * (M[2][2] * M[3][3] - M[2][3] * M[3][2])
    - M[1][2] * (M[2][1] * M[3][3] - M[2][3] * M[3][1])
    + M[1][3] * (M[2][1] * M[3][2] - M[2][2] * M[3][1])

\* The decomposition of a world matrix into scale, rotation and position.
\* The axes of the matrices met here lie along the world axes, so the length
\* of a row is the sum of the moduli of its entries.  A matrix that reflects
\* (negative determinant) has a negative scale on the axis `flip` (0: on
\* all three), which is the store's choice.
Position(M) == <<M[4][1], M[4][2], M[4][3]>>
Scale(M, flip) ==
    LET reflects == Det3(M) < 0
    IN  [i \in 1..3 |->
           (Abs(M[i][1]) + Abs(M[i][2]) + Abs(M[i][3]))
             * (IF reflects /\ flip \in {0, i} THEN -1 ELSE 1)]
Rotation(M, flip) ==
    LET sc == Scale(M, flip)
    IN  [i \in 1..3 |-> [j \in 1..3 |-> M[i][j] \div sc[i]]]

\* The world matrix of scale sc, rotation rot and position pos.
Compose(sc, rot, pos) ==
    [i \in 1..4 |->
       [j \in 1..4 |->
          IF i <= 3 /\ j <= 3 THEN sc[i] * rot[i][j]
          ELSE IF i = 4 /\ j <= 3 THEN pos[j]
          ELSE IF i = 4 THEN 1 ELSE 0]]

\* ------------------------------------------------------------------ state
VARIABLES
    obj_name,           \* store: node -> its name (<<>>: no such node)
    obj_type,           \* store: node -> its type
    obj_parent,         \* store: node -> its DAG parent
    obj_module,         \* store: node -> source of its '.module' connection
    obj_visible,        \* store: node -> its '.visibility'
    constraints,        \* store: node -> the sources connected into it
                        \*   (translate / inputMatrix / matrixIn)
    persistent_attrs,   \* store: node -> its persistent attribute backups
    world,              \* store: node -> its world matrix (4 rows of 4)
    name, side, mirror_type, module_mirror, owned_nodes, parent_joint,
    module_type, placement_group, controls_group, extras_group,
    deform_joints, placement_locators, controllers,
    is_initialized, is_built,   \* the fields, per backing node
    custom,             \* an editable string field of the concrete subclass
    node_name,          \* the module object: node_name (<<>>: no object)
    created_id,         \* node -> the object_id add_node was given for it
    last,               \* the last call and how it ended
    steps               \* the number of calls made so far

fields == <<name, side, mirror_type, module_mirror, owned_nodes, parent_joint,
            module_type, placement_group, controls_group, extras_group,
            deform_joints, placement_locators, controllers,
            is_initialized, is_built, custom>>
store == <<obj_name, obj_type, obj_parent, obj_module, obj_visible,
           constraints, persistent_attrs, world>>
vars == <<store, fields, node_name, created_id, last, steps>>

\* The scene and the module objects as one value, so that a method is a
\* function from the state before to the state after.
Cur ==
    [obj_name |-> obj_name, obj_type |-> obj_type, obj_parent |-> obj_parent,
     obj_module |-> obj_module, obj_visible |-> obj_visible,
     constraints |-> constraints, persistent_attrs |-> persistent_attrs,
     world |-> world, custom |-> custom,
     name |-> name, side |-> side, mirror_type |-> mirror_type,
     module_mirror |-> module_mirror, owned_nodes |-> owned_nodes,
     parent_joint |-> parent_joint, module_type |-> module_type,
     placement_group |-> placement_group, controls_group |-> controls_group,
     extras_group |-> extras_group, deform_joints |-> deform_joints,
     placement_locators |-> placement_locators, controllers |-> controllers,
     is_initialized |-> is_initialized, is_built |-> is_built,
     node_name |-> node_name, created_id |-> created_id]

Commit(s) ==
    /\ obj_name' = s.obj_name /\ obj_type' = s.obj_type
    /\ obj_parent' = s.obj_parent /\ obj_module' = s.obj_module
    /\ obj_visible' = s.obj_visible /\ constraints' = s.constraints
    /\ persistent_attrs' = s.persistent_attrs
    /\ world' = s.world /\ custom' = s.custom
    /\ name' = s.name /\ side' = s.side /\ mirror_type' = s.mirror_type
    /\ module_mirror' = s.module_mirror /\ owned_nodes' = s.owned_nodes
    /\ parent_joint' = s.parent_joint /\ module_type' = s.module_type
    /\ placement_group' = s.placement_group
    /\ controls_group' = s.controls_group /\ extras_group' = s.extras_group
    /\ deform_joints' = s.deform_joints
    /\ placement_locators' = s.placement_locators
    /\ controllers' = s.controllers
    /\ is_initialized' = s.is_initialized /\ is_built' = s.is_built
    /\ node_name' = s.node_name /\ created_id' = s.created_id

\* The outcome of a method: the state it left, the exception that ended it
\* ("ok": none) and its return value.
Ok(s) == [s |-> s, err |-> "ok", ret |-> NoneRef]
Ret(s, v) == [s |-> s, err |-> "ok", ret |-> v]
Raise(s, e) == [s |-> s, err |-> e, ret |-> NoneRef]
\* r; F: an exception ends the method with the state reached so far.
Then(r, F(_)) == IF r.err # "ok" THEN r ELSE F(r)

Range(q) == {q[i] : i \in DOMAIN q}

\* ------------------------------------------------------------- node store
Lookup(s, n) ==
    IF n # <<>> /\ \E i \in Nodes : s.obj_name[i] = n
    THEN CHOOSE i \in Nodes : s.obj_name[i] = n
    ELSE NoneRef
objExists(s, n) == Lookup(s, n) # NoneRef
FreeNodes(s) == {i \in Nodes : s.obj_name[i] = <<>>}
NewNode(s) == CHOOSE i \in FreeNodes(s) : \A j \in FreeNodes(s) : i <= j

createNode(s, n, type, nm, par) ==
    [s EXCEPT !.obj_name[n] = nm, !.obj_type[n] = type, !.obj_parent[n] = par]

\* rename: the store keeps names unique; a collision is an error.
rename(s, n, nm) ==
    IF Lookup(s, nm) \notin {NoneRef, n}
    THEN Raise(s, "RuntimeError")
    ELSE Ok([s EXCEPT !.obj_name[n] = nm])

\* The backing node of module object m, found by its node_name.
Backing(s, m) == Lookup(s, s.node_name[m])

\* cmds.delete(nodes): the nodes leave the scene, and with them every
\* connection and every field reference to them.
delete(s, nodes) ==
    LET Keep(q) == SelectSeq(q, LAMBDA x : x \notin nodes)
        Ref(x) == IF x \in nodes THEN NoneRef ELSE x
    IN  [s EXCEPT
           !.obj_name = [i \in Nodes |-> IF i \in nodes THEN <<>> ELSE @[i]],
           !.obj_type = [i \in Nodes |-> IF i \in nodes THEN NoneStr ELSE @[i]],
           !.obj_parent = [i \in Nodes |-> IF i \in nodes THEN NoneRef ELSE Ref(@[i])],
           !.obj_module = [i \in Nodes |-> IF i \in nodes THEN NoneRef ELSE Ref(@[i])],
           !.constraints = [i \in Nodes |-> IF i \in nodes THEN <<>> ELSE Keep(@[i])],
           !.world = [i \in Nodes |-> IF i \in nodes THEN Identity ELSE @[i]],
           !.created_id = [i \in Nodes |-> IF i \in nodes THEN NoneId ELSE @[i]],
           !.parent_joint = [i \in Nodes |-> Ref(@[i])],
           !.module_mirror = [i \in Nodes |-> Ref(@[i])],
           !.owned_nodes = [i \in Nodes |-> Keep(@[i])],
           !.deform_joints = [i \in Nodes |-> Keep(@[i])],
           !.placement_locators = [i \in Nodes |-> Keep(@[i])],
           !.controllers = [i \in Nodes |-> Keep(@[i])]]

\* mop.dag.matrix_constraint(driver, driven): a multMatrix fed by the driver,
\* a decomposeMatrix fed by the multMatrix, and the decomposeMatrix driving
\* the translate (rotate, scale) of the driven node.
matrix_constraint(s, driver, driven) ==
    LET mult_mat == NewNode(s)
        s1 == [createNode(s, mult_mat, "multMatrix",
                          <<"multMatrix", IdToken(mult_mat)>>, NoneRef)
                 EXCEPT !.constraints[mult_mat] = <<driver>>]
        decompose_mat == NewNode(s1)
        s2 == [createNode(s1, decompose_mat, "decomposeMatrix",
                          <<"decomposeMatrix", IdToken(decompose_mat)>>, NoneRef)
                 EXCEPT !.constraints[decompose_mat] = <<mult_mat>>]
    IN  [s2 EXCEPT !.constraints[driven] = Append(@, decompose_mat)]

\* ------------------------------------------------------- node creation
\* add_node: encode the module's identity and the role into a name, refuse
\* a name that exists, create the node, tag it and append it to owned_nodes.
add_node_name(s, m, node_type, role, object_id, description) ==
    name_from_metadata(
        [base_name   |-> s.name[Backing(s, m)],
         side        |-> s.side[Backing(s, m)],
         role        |-> IF role = NoneStr THEN node_type ELSE role,
         description |-> description,
         id          |-> object_id])

add_node_create(s, m, node_type, role, object_id, description, par) ==
    LET b == Backing(s, m)
        n == NewNode(s)
        nm == add_node_name(s, m, node_type, role, object_id, description)
    IN  Ret([createNode(s, n, node_type, nm, par) EXCEPT
                !.obj_module[n] = b,
                !.created_id[n] = object_id,
                !.owned_nodes[b] = Append(@, n)], n)

add_node_unchecked(s, m, node_type, role, object_id, description, par) ==
    add_node_create(s, m, node_type, role, object_id, description, par)

add_node(s, m, node_type, role, object_id, description, par) ==
    IF Backing(s, m) = NoneRef THEN Raise(s, "RuntimeError")
    ELSE IF objExists(s, add_node_name(s, m, node_type, role, object_id,
                                       description))
    THEN Raise(s, "ValueError")
    ELSE add_node_create(s, m, node_type, role, object_id, description, par)

deform_joint(s, m, par, object_id, description) ==
    LET b == Backing(s, m)
    IN  Then(add_node(s, m, "joint", "deform", object_id, description, NoneRef),
             LAMBDA r :
               LET p1 == IF par # NoneRef THEN par ELSE r.s.parent_joint[b]
                   p2 == IF p1 # NoneRef THEN p1 ELSE skeleton_group
               IN  Ret([r.s EXCEPT !.obj_parent[r.ret] = p2,
                                   !.world[r.ret] = Identity,
                                   !.deform_joints[b] = Append(@, r.ret)],
                       r.ret))

\* The slip of counting the owned nodes instead of the deform joints.
_add_deform_joint_owned(s, m, par, object_id, description) ==
    IF Backing(s, m) = NoneRef THEN Raise(s, "RuntimeError")
    ELSE deform_joint(s, m, par,
                      IF object_id = NoneId
                      THEN Len(s.owned_nodes[Backing(s, m)]) ELSE object_id,
                      description)

_add_deform_joint(s, m, par, object_id, description) ==
    IF Backing(s, m) = NoneRef THEN Raise(s, "RuntimeError")
    ELSE deform_joint(s, m, par,
                      IF object_id = NoneId
                      THEN Len(s.deform_joints[Backing(s, m)]) ELSE object_id,
                      description)

_add_placement_locator(s, m, description, object_id, par) ==
    LET b == Backing(s, m)
    IN  IF b = NoneRef THEN Raise(s, "RuntimeError")
        ELSE Then(add_node(s, m, "locator", "placement", object_id, description, NoneRef),
                  LAMBDA r :
                    LET p == IF par # NoneRef THEN par ELSE r.s.placement_group[b]
                    IN  Ret([r.s EXCEPT !.obj_parent[r.ret] = p,
                                        !.world[r.ret] = Identity,
                                        !.placement_locators[b] = Append(@, r.ret)],
                            r.ret))

\* initialize of the base class: the three groups of the module.
initialize(s, m) ==
    LET b == Backing(s, m)
    IN  Then(add_node(s, m, "transform", "grp", NoneId, "placement", b),
          LAMBDA r1 :
            Then(add_node([r1.s EXCEPT !.placement_group[b] = r1.ret],
                          m, "transform", "grp", NoneId, "controls", b),
              LAMBDA r2 :
                Then(add_node([r2.s EXCEPT !.controls_group[b] = r2.ret],
                              m, "transform", "grp", NoneId, "extras", b),
                  LAMBDA r3 :
                    Ok([r3.s EXCEPT !.extras_group[b] = r3.ret,
                                    !.obj_visible[r3.ret] = FALSE]))))

\* initialize of the subclass Chain: the groups, then its deform joint.
Chain_initialize(s, m) ==
    Then(initialize(s, m),
         LAMBDA r : _add_deform_joint(r.s, m, NoneRef, NoneId, NoneStr))

\* --------------------------------------------------------------- update
\* update_parent_joint that wires the constraint without deleting the old.
update_parent_joint_keep(s, m) ==
    LET b == Backing(s, m)
    IN  IF s.parent_joint[b] # NoneRef
        THEN matrix_constraint(s, s.parent_joint[b], b)
        ELSE s

update_parent_joint(s, m) ==
    LET b == Backing(s, m)
        first_level_nodes == {s.constraints[b][i] : i \in DOMAIN s.constraints[b]}
        second_level_nodes ==
            UNION {{s.constraints[n][i] : i \in DOMAIN s.constraints[n]} :
                   n \in first_level_nodes}
        old_constraint_nodes == first_level_nodes \cup second_level_nodes
        s1 == IF old_constraint_nodes # {} THEN delete(s, old_constraint_nodes)
              ELSE s
    IN  IF s1.parent_joint[b] # NoneRef
        THEN matrix_constraint(s1, s1.parent_joint[b], b)
        ELSE s1

\* _update_node_name that re-encodes the name field only, not the side.
_update_node_name_keep_side(s, m, node) ==
    LET b == Backing(s, m)
        n == Lookup(s, node)
    IN  IF b = NoneRef \/ n = NoneRef THEN Raise(s, "RuntimeError")
        ELSE IF ~WellFormed(node) THEN Raise(s, "DecodeError")
        ELSE LET md == metadata_from_name(node)
                 new_name == name_from_metadata(
                                 [md EXCEPT !.base_name = s.name[b]])
             IN  Then(rename(s, n, new_name), LAMBDA r : Ret(r.s, new_name))

\* _update_node_name(node): re-encode the name of `node` (a name) with the
\* name and side fields, rename the node, return the new name.
_update_node_name(s, m, node) ==
    LET b == Backing(s, m)
        n == Lookup(s, node)
    IN  IF b = NoneRef \/ n = NoneRef THEN Raise(s, "RuntimeError")
        ELSE IF ~WellFormed(node) THEN Raise(s, "DecodeError")
        ELSE LET md == metadata_from_name(node)
                 new_name == name_from_metadata(
                                 [md EXCEPT !.base_name = s.name[b],
                                            !.side = s.side[b]])
             IN  Then(rename(s, n, new_name), LAMBDA r : Ret(r.s, new_name))

\* for node in self.owned_nodes.get(): self._update_node_name(node)
RECURSIVE RenameOwned(_, _, _)
RenameOwned(r, m, nodes) ==
    IF r.err # "ok" \/ nodes = <<>> THEN r
    ELSE RenameOwned(_update_node_name(r.s, m, r.s.obj_name[Head(nodes)]),
                     m, Tail(nodes))

\* renameAttr of the i-th persistent attribute of node b.
renameAttr(s, b, i, new) ==
    LET cur == s.persistent_attrs[b]
    IN  IF \E j \in DOMAIN cur : j # i /\ cur[j] = new
        THEN Raise(s, "RuntimeError")
        ELSE Ok([s EXCEPT !.persistent_attrs[b][i] = new])

\* for attr in persistent_attrs: re-encode its prefix, rename it in place.
RECURSIVE RenamePersistent(_, _, _)
RenamePersistent(r, m, i) ==
    LET b == Backing(r.s, m)
    IN  IF r.err # "ok" THEN r
        ELSE IF i > Len(r.s.persistent_attrs[b]) THEN r
        ELSE LET attr == r.s.persistent_attrs[b][i]
                 old_node == attr[1]
             IN  IF ~WellFormed(old_node) THEN Raise(r.s, "DecodeError")
                 ELSE LET md == metadata_from_name(old_node)
                          new_node == name_from_metadata(
                                          [md EXCEPT !.base_name = r.s.name[b],
                                                     !.side = r.s.side[b]])
                      IN  RenamePersistent(
                              renameAttr(r.s, b, i, <<new_node, attr[2]>>),
                              m, i + 1)

\* update() past its is_built gate.
update_placement(s, m) ==
    LET b == Backing(s, m)
        s1 == update_parent_joint(s, m)
    IN  IF ~WellFormed(s1.node_name[m]) THEN Raise(s1, "DecodeError")
        ELSE
          LET scene_metadata == metadata_from_name(s1.node_name[m])
              name_changed == s1.name[b] # scene_metadata.base_name
              side_changed == s1.side[b] # scene_metadata.side
          IN  IF ~(name_changed \/ side_changed) THEN Ok(s1)
              ELSE
                Then(_update_node_name(s1, m, s1.node_name[m]),
                  LAMBDA r1 :
                    LET s2 == [r1.s EXCEPT !.node_name[m] = r1.ret]
                    IN  Then(RenameOwned(Ok(s2), m,
                                         s2.owned_nodes[Backing(s2, m)]),
                             LAMBDA r2 : RenamePersistent(Ok(r2.s), m, 1)))

\* update() without the is_built gate.
update_ungated(s, m) ==
    IF Backing(s, m) = NoneRef THEN Raise(s, "RuntimeError")
    ELSE update_placement(s, m)

update(s, m) ==
    IF Backing(s, m) = NoneRef THEN Raise(s, "RuntimeError")
    ELSE IF s.is_built[Backing(s, m)] THEN Ok(s)
    ELSE update_placement(s, m)

\* ---------------------------------------------------------- construction
\* The body of __init__, run on the module object m (its backing node).
first_creation(s, b, nm, sd, pj, rig, cls) ==
      LET s2 == [s EXCEPT !.name[b] = nm, !.side[b] = sd,
                          !.module_type[b] = cls]
      IN  IF rig = NoneRef THEN Raise(s2, "AttributeError")
          ELSE
            LET s3 == IF s2.obj_parent[b] # modules_group
                      THEN [s2 EXCEPT !.obj_parent[b] = modules_group]
                      ELSE s2
                s4 == IF pj # NoneRef
                      THEN matrix_constraint(
                               [s3 EXCEPT !.parent_joint[b] = pj], pj, b)
                      ELSE s3
                r0 == IF cls = "Chain" THEN Chain_initialize(s4, b)
                      ELSE initialize(s4, b)
            IN  Then(r0, LAMBDA r1 :
                  Then(update(r1.s, b), LAMBDA r2 :
                    Ret([r2.s EXCEPT !.is_initialized[b] = TRUE], b)))

\* __init__ writing the class name on every call, initialized or not.
init_body_retyped(s, b, nm, sd, pj, rig, cls) ==
    IF s.is_initialized[b] THEN Ret([s EXCEPT !.module_type[b] = cls], b)
    ELSE first_creation(s, b, nm, sd, pj, rig, cls)

\* if not self.is_initialized.get(): the first creation.
init_body(s, b, nm, sd, pj, rig, cls) ==
    IF s.is_initialized[b] THEN Ret(s, b)
    ELSE first_creation(s, b, nm, sd, pj, rig, cls)

\* RigModule(name, side, parent_joint, rig): node_name is `name` when such a
\* node exists and the encoded identity otherwise; MopNode.__init__ creates
\* the backing node when it is missing.  An exception leaves no object.
__init__(s, nm, sd, pj, rig, cls) ==
    LET nn == IF objExists(s, nm) THEN nm
              ELSE name_from_metadata(
                       [base_name |-> nm, side |-> sd, role |-> "mod",
                        description |-> NoneStr, id |-> NoneId])
        s0 == IF objExists(s, nn) THEN s
              ELSE createNode(s, NewNode(s), "MopNode", nn, NoneRef)
        b  == Lookup(s0, nn)
        r  == init_body([s0 EXCEPT !.node_name[b] = nn], b, nm, sd, pj, rig, cls)
    IN  IF r.err = "ok" THEN r
        ELSE [r EXCEPT !.s.node_name[b] = s.node_name[b], !.ret = b]

\* ------------------------------------------------------ mirror reference
\* The module_mirror property: a module object made by the registry from
\* this module's module_type, on the node _module_mirror refers to.
module_mirror_get(s, m) ==
    LET b == Backing(s, m)
        mirror_node == s.module_mirror[b]
    IN  IF mirror_node = NoneRef THEN Ret(s, NoneRef)
        ELSE __init__(s, s.obj_name[mirror_node], default_side, NoneRef,
                      TheRig, s.module_type[b])

\* A setter that links both modules to each other.
module_mirror_set_both(s, m, value) ==
    [s EXCEPT !.module_mirror[Backing(s, m)] = value,
              !.module_mirror[value] = Backing(s, m)]

module_mirror_set(s, m, value) ==
    [s EXCEPT !.module_mirror[Backing(s, m)] = value]

\* is_mirrored: bool(self.module_mirror); returns TRUE or FALSE.
is_mirrored(s, m) ==
    Then(module_mirror_get(s, m), LAMBDA r : Ret(r.s, r.ret # NoneRef))

\* The parent_module property: the module that owns parent_joint, made by
\* the registry from the module_type of its backing node; None when
\* parent_joint is unset.
parent_module(s, m) ==
    LET b == Backing(s, m)
        pj == s.parent_joint[b]
    IN  IF pj = NoneRef THEN Ret(s, NoneRef)
        ELSE IF s.obj_module[pj] = NoneRef THEN Raise(s, "TypeError")
        ELSE __init__(s, s.obj_name[s.obj_module[pj]], default_side, NoneRef,
                      TheRig, s.module_type[s.obj_module[pj]])

\* find_non_mirrored_parents that checks for an absent parent.
RECURSIVE find_non_mirrored_parents_checked(_, _, _)
find_non_mirrored_parents_checked(s, m, non_mirrored_parents) ==
    Then(parent_module(s, m), LAMBDA r :
      IF r.ret = NoneRef THEN Ret(r.s, non_mirrored_parents)
      ELSE Then(module_mirror_get(r.s, r.ret), LAMBDA r1 :
             IF r1.ret = NoneRef /\ r1.s.side[r.ret] # "M"
             THEN find_non_mirrored_parents_checked(
                      r1.s, r.ret, Append(non_mirrored_parents, r.ret))
             ELSE Ret(r1.s, non_mirrored_parents)))

\* find_non_mirrored_parents collecting the ancestors farthest first.
RECURSIVE find_non_mirrored_parents_prepend(_, _, _)
find_non_mirrored_parents_prepend(s, m, non_mirrored_parents) ==
    Then(parent_module(s, m), LAMBDA r :
      IF r.ret = NoneRef THEN Raise(r.s, "AttributeError")
      ELSE Then(module_mirror_get(r.s, r.ret), LAMBDA r1 :
             IF r1.ret = NoneRef /\ r1.s.side[r.ret] # "M"
             THEN find_non_mirrored_parents_prepend(
                      r1.s, r.ret, <<r.ret>> \o non_mirrored_parents)
             ELSE Ret(r1.s, non_mirrored_parents)))

\* find_non_mirrored_parents(non_mirrored_parents): the one list is passed
\* up the recursion and returned; parent is dereferenced unchecked.
RECURSIVE find_non_mirrored_parents(_, _, _)
find_non_mirrored_parents(s, m, non_mirrored_parents) ==
    Then(parent_module(s, m), LAMBDA r :
      IF r.ret = NoneRef THEN Raise(r.s, "AttributeError")
      ELSE Then(module_mirror_get(r.s, r.ret), LAMBDA r1 :
             IF r1.ret = NoneRef /\ r1.s.side[r.ret] # "M"
             THEN find_non_mirrored_parents(
                      r1.s, r.ret, Append(non_mirrored_parents, r.ret))
             ELSE Ret(r1.s, non_mirrored_parents)))

\* ------------------------------------------------------------- controls
\* add_control(dag_node): a controller named after dag_node with role ctl,
\* its three persistent attributes on the backing node, its buffer group.
add_control(s, m, dag_node, object_id, description) ==
    LET b == Backing(s, m)
    IN  IF b = NoneRef THEN Raise(s, "RuntimeError")
        ELSE IF ~WellFormed(dag_node) THEN Raise(s, "DecodeError")
        ELSE
          LET md == metadata_from_name(dag_node)
              md1 == [md EXCEPT
                        !.id = IF object_id # NoneId THEN object_id ELSE @,
                        !.description = IF description # NoneStr
                                        THEN description ELSE @,
                        !.role = "ctl"]
              ctl_name == name_from_metadata(md1)
              buf_name == name_from_metadata([md1 EXCEPT !.role = "buffer"])
              ctl == NewNode(s)
              s1 == createNode(s, ctl, "controller", <<"shape", IdToken(ctl)>>,
                               NoneRef)
              Backup(a) == <<ctl_name, a>>
              Create(q, a) == IF \E i \in DOMAIN q : q[i] = Backup(a) THEN q
                              ELSE Append(q, Backup(a))
          IN  Then(rename(s1, ctl, ctl_name), LAMBDA r1 :
                LET s2 == [r1.s EXCEPT !.persistent_attrs[b] =
                             Create(Create(Create(@, "shape_data"),
                                           "attributes_state"),
                                    "parent_space_data")]
                    buf == NewNode(s2)
                IN  IF objExists(s2, buf_name) THEN Raise(s2, "RuntimeError")
                    ELSE Ret([createNode(s2, buf, "transform", buf_name,
                                         s2.obj_parent[ctl])
                                EXCEPT !.obj_parent[ctl] = buf,
                                       !.controllers[b] = Append(@, ctl)],
                             ctl))

\* ------------------------------------------------------- build / publish
\* build of the base class raises; build of Chain puts a control on every
\* deform joint.
RECURSIVE ControlEach(_, _, _)
ControlEach(r, m, joints) ==
    IF r.err # "ok" \/ joints = <<>> THEN r
    ELSE ControlEach(add_control(r.s, m, r.s.obj_name[Head(joints)],
                                 NoneId, NoneStr),
                     m, Tail(joints))

build(s, m) ==
    LET b == Backing(s, m)
    IN  IF b = NoneRef THEN Raise(s, "RuntimeError")
        ELSE IF s.module_type[b] = "Chain"
        THEN ControlEach(Ok(s), m, s.deform_joints[b])
        ELSE Raise(s, "NotImplementedError")

\* _build setting the flag before build() has returned.
_build_flag_first(s, m) ==
    IF Backing(s, m) = NoneRef THEN Raise(s, "RuntimeError")
    ELSE build([s EXCEPT !.is_built[Backing(s, m)] = TRUE], m)

_build(s, m) ==
    Then(build(s, m),
         LAMBDA r : Ok([r.s EXCEPT !.is_built[Backing(r.s, m)] = TRUE]))

\* publish that leaves the extras group as it is.
publish_noop(s, m) ==
    LET b == Backing(s, m)
    IN  IF b = NoneRef THEN Raise(s, "RuntimeError")
        ELSE IF s.extras_group[b] = NoneRef THEN Raise(s, "TypeError")
        ELSE Ok(s)

publish(s, m) ==
    LET b == Backing(s, m)
    IN  IF b = NoneRef THEN Raise(s, "RuntimeError")
        ELSE IF s.extras_group[b] = NoneRef THEN Raise(s, "TypeError")
        ELSE Ok([s EXCEPT !.obj_visible[s.extras_group[b]] = FALSE])

\* -------------------------------------------------------- update_mirror
world_reflexion_mat ==
    <<<<-1, 0, 0, 0>>, <<0, 1, 0, 0>>, <<0, 0, 1, 0>>, <<0, 0, 0, 1>>>>
local_reflexion_mat ==
    <<<<-1, 0, 0, 0>>, <<0, -1, 0, 0>>, <<0, 0, -1, 0>>, <<0, 0, 0, 1>>>>

\* cmds.xform(node, matrix=mat, worldSpace=True)
xform_matrix(s, node, mat) == [s EXCEPT !.world[node] = mat]
\* cmds.setAttr(node + '.scale', 1, 1, 1)
setAttr_scale(s, node, flip) ==
    [s EXCEPT !.world[node] =
        Compose(<<1, 1, 1>>, Rotation(@, flip), Position(@))]
\* cmds.xform(node, q=True, rotation=True, ws=True)
xform_query_rotation(s, node, flip) == Rotation(s.world[node], flip)
\* cmds.xform(node, rotation=rot, ws=True)
xform_rotation(s, node, rot, flip) ==
    [s EXCEPT !.world[node] = Compose(Scale(@, flip), rot, Position(@))]

\* Behavior mirroring with the world reflection only.
mirror_behavior_world_only(s, orig_node, new_node, flip) ==
    LET new_mat == MatMul(s.world[orig_node], world_reflexion_mat)
    IN  setAttr_scale(xform_matrix(s, new_node, new_mat), new_node, flip)

\* if mirror_type.lower() == 'behavior'
mirror_behavior(s, orig_node, new_node, flip) ==
    LET orig_node_mat == s.world[orig_node]
        new_mat == MatMul(MatMul(local_reflexion_mat, orig_node_mat),
                          world_reflexion_mat)
    IN  setAttr_scale(xform_matrix(s, new_node, new_mat), new_node, flip)

\* Orientation mirroring that leaves the reflected rotation on the target.
mirror_orientation_reflected(s, orig_node, new_node, flip) ==
    LET new_mat == MatMul(s.world[orig_node], world_reflexion_mat)
    IN  setAttr_scale(xform_matrix(s, new_node, new_mat), new_node, flip)

\* if mirror_type.lower() == 'orientation'
mirror_orientation(s, orig_node, new_node, flip) ==
    LET orig_node_mat == s.world[orig_node]
        new_mat == MatMul(orig_node_mat, world_reflexion_mat)
        s1 == setAttr_scale(xform_matrix(s, new_node, new_mat), new_node, flip)
        orig_orient == xform_query_rotation(s1, orig_node, flip)
    IN  xform_rotation(s1, new_node, orig_orient, flip)

lower(v) ==
    IF v = "Behavior" THEN "behavior"
    ELSE IF v = "Orientation" THEN "orientation" ELSE v

\* A pairing that refuses lists of different lengths.
zip_strict(orig_nodes, new_nodes) ==
    IF Len(orig_nodes) # Len(new_nodes) THEN <<>>
    ELSE [i \in 1..Len(orig_nodes) |-> <<orig_nodes[i], new_nodes[i]>>]

\* zip(orig_nodes, new_nodes): pairs by position, as long as the shorter.
zip(orig_nodes, new_nodes) ==
    [i \in 1..(IF Len(orig_nodes) < Len(new_nodes)
               THEN Len(orig_nodes) ELSE Len(new_nodes)) |->
       <<orig_nodes[i], new_nodes[i]>>]

\* for orig_node, new_node in zip(orig_nodes, new_nodes): ...
RECURSIVE MirrorEach(_, _, _, _)
MirrorEach(s, pairs, mtype, flip) ==
    IF pairs = <<>> THEN s
    ELSE LET orig_node == Head(pairs)[1]
             new_node == Head(pairs)[2]
             s1 == IF lower(mtype) = "behavior"
                   THEN mirror_behavior(s, orig_node, new_node, flip)
                   ELSE s
             s2 == IF lower(mtype) = "orientation"
                   THEN mirror_orientation(s1, orig_node, new_node, flip)
                   ELSE s1
         IN  MirrorEach(s2, Tail(pairs), mtype, flip)

\* The field sync: the editable fields other than name and side (mirror_type,
\* and the subclass field of a Chain), each set when its value is truthy.
sync_fields(s, b, src) ==
    LET s1 == IF s.mirror_type[src] # NoneStr
              THEN [s EXCEPT !.mirror_type[b] = s.mirror_type[src]]
              ELSE s
    IN  IF s1.module_type[b] = "Chain" /\ s1.custom[src] # NoneStr
        THEN [s1 EXCEPT !.custom[b] = s1.custom[src]]
        ELSE s1

\* update_mirror: the field sync, update(), then the reflection of the
\* paired placement nodes.
update_mirror(s, m, flip) ==
    LET b == Backing(s, m)
    IN  IF b = NoneRef THEN Raise(s, "RuntimeError")
        ELSE Then(module_mirror_get(s, m), LAMBDA r :
               IF r.ret = NoneRef THEN Raise(r.s, "AttributeError")
               ELSE LET src == Backing(r.s, r.ret)
                    IN  Then(update(sync_fields(r.s, b, src), m), LAMBDA r1 :
                          LET orig_nodes == r1.s.deform_joints[src]
                                              \o r1.s.placement_locators[src]
                              new_nodes == r1.s.deform_joints[b]
                                             \o r1.s.placement_locators[b]
                          IN  Ok(MirrorEach(r1.s, zip(orig_nodes, new_nodes),
                                            r1.s.mirror_type[b], flip))))

\* ------------------------------------------------------------------ Init
\* An empty scene holding the rig's two containers, and no module.
EmptyScene ==
    [obj_name |-> [i \in Nodes |->
                       IF i = modules_group THEN <<"modules">>
                       ELSE IF i = skeleton_group THEN <<"skeleton">>
                       ELSE <<>>],
     obj_type |-> [i \in Nodes |->
                       IF i \in {modules_group, skeleton_group}
                       THEN "transform" ELSE NoneStr],
     obj_parent |-> [i \in Nodes |-> NoneRef],
     obj_module |-> [i \in Nodes |-> NoneRef],
     obj_visible |-> [i \in Nodes |-> TRUE],
     constraints |-> [i \in Nodes |-> <<>>],
     persistent_attrs |-> [i \in Nodes |-> <<>>],
     world |-> [i \in Nodes |-> Identity],
     custom |-> [i \in Nodes |-> NoneStr],
     name |-> [i \in Nodes |-> <<>>],
     side |-> [i \in Nodes |-> NoneStr],
     mirror_type |-> [i \in Nodes |-> "Behavior"],
     module_mirror |-> [i \in Nodes |-> NoneRef],
     owned_nodes |-> [i \in Nodes |-> <<>>],
     parent_joint |-> [i \in Nodes |-> NoneRef],
     module_type |-> [i \in Nodes |-> NoneStr],
     placement_group |-> [i \in Nodes |-> NoneRef],
     controls_group |-> [i \in Nodes |-> NoneRef],
     extras_group |-> [i \in Nodes |-> NoneRef],
     deform_joints |-> [i \in Nodes |-> <<>>],
     placement_locators |-> [i \in Nodes |-> <<>>],
     controllers |-> [i \in Nodes |-> <<>>],
     is_initialized |-> [i \in Nodes |-> FALSE],
     is_built |-> [i \in Nodes |-> FALSE],
     node_name |-> [i \in Nodes |-> <<>>],
     created_id |-> [i \in Nodes |-> NoneId]]

\* The variables of the scene and the modules hold the value s.
Start(s) ==
    /\ obj_name = s.obj_name
    /\ obj_type = s.obj_type
    /\ obj_parent = s.obj_parent
    /\ obj_module = s.obj_module
    /\ obj_visible = s.obj_visible
    /\ constraints = s.constraints
    /\ persistent_attrs = s.persistent_attrs
    /\ world = s.world
    /\ custom = s.custom
    /\ name = s.name
    /\ side = s.side
    /\ mirror_type = s.mirror_type
    /\ module_mirror = s.module_mirror
    /\ owned_nodes = s.owned_nodes
    /\ parent_joint = s.parent_joint
    /\ module_type = s.module_type
    /\ placement_group = s.placement_group
    /\ controls_group = s.controls_group
    /\ extras_group = s.extras_group
    /\ deform_joints = s.deform_joints
    /\ placement_locators = s.placement_locators
    /\ controllers = s.controllers
    /\ is_initialized = s.is_initialized
    /\ is_built = s.is_built
    /\ node_name = s.node_name
    /\ created_id = s.created_id

NoCall == [op |-> "none", m |-> NoneRef, err |-> "ok", cls |-> NoneStr,
           ret |-> <<>>]

Init == Start(EmptyScene) /\ last = NoCall /\ steps = 0

\* --------------------------------------------------------------- actions
\* The module objects a caller holds, and the backing nodes in the scene.
Modules == {m \in Nodes : node_name[m] # <<>>}
BackingNodes == {i \in Nodes : obj_type[i] = "MopNode"}
Free == Cardinality({i \in Nodes : obj_name[i] = <<>>})

\* A call: one more step, recorded in last.
\* cls: the class of a constructor call; ret: a returned list of modules.
CalledWith(op, m, err, cls, ret) ==
    /\ steps < MaxSteps
    /\ steps' = steps + 1
    /\ last' = [op |-> op, m |-> m, err |-> err, cls |-> cls, ret |-> ret]

Called(op, m, err) == CalledWith(op, m, err, NoneStr, <<>>)

\* A call that returns a list of modules.
Returned(op, m, r) ==
    /\ CalledWith(op, m, r.err, NoneStr, IF r.err = "ok" THEN r.ret ELSE <<>>)
    /\ Commit(r.s)

Done(op, m, r) ==
    /\ Called(op, m, r.err)
    /\ Commit(r.s)

\* A constructor call: the module it returns is recorded.
Constructed(cls, r) ==
    /\ CalledWith("__init__", r.ret, r.err, cls, <<>>)
    /\ Commit(r.s)

\* RigModule(nm, sd, pj, rig): first creation by a base name, or
\* re-attaching by the name of a backing node.
Construct(nm, sd, pj, rig, cls) ==
    /\ Free >= (IF cls = "Chain" THEN 5 ELSE 4) + (IF pj # NoneRef THEN 2 ELSE 0)
    /\ Constructed(cls, __init__(Cur, nm, sd, pj, rig, cls))

\* module.name.set(v) / module.side.set(v): the editable fields.
SetName(m, v) ==
    /\ name[m] # v
    /\ name' = [name EXCEPT ![Backing(Cur, m)] = v]
    /\ Called("name.set", m, "ok")
    /\ UNCHANGED <<store, side, mirror_type, module_mirror, owned_nodes,
                   parent_joint, module_type, placement_group, controls_group,
                   extras_group, deform_joints, placement_locators,
                   controllers, is_initialized, is_built, custom, node_name,
                   created_id>>

SetSide(m, v) ==
    /\ side[m] # v
    /\ side' = [side EXCEPT ![Backing(Cur, m)] = v]
    /\ Called("side.set", m, "ok")
    /\ UNCHANGED <<store, name, mirror_type, module_mirror, owned_nodes,
                   parent_joint, module_type, placement_group, controls_group,
                   extras_group, deform_joints, placement_locators,
                   controllers, is_initialized, is_built, custom, node_name,
                   created_id>>

SetMirrorType(m, v) ==
    /\ mirror_type[m] # v
    /\ mirror_type' = [mirror_type EXCEPT ![Backing(Cur, m)] = v]
    /\ Called("mirror_type.set", m, "ok")
    /\ UNCHANGED <<store, name, side, module_mirror, owned_nodes,
                   parent_joint, module_type, placement_group, controls_group,
                   extras_group, deform_joints, placement_locators,
                   controllers, is_initialized, is_built, custom, node_name,
                   created_id>>

\* module.parent_joint.set(v)
SetParentJoint(m, v) ==
    /\ parent_joint[m] # v
    /\ parent_joint' = [parent_joint EXCEPT ![Backing(Cur, m)] = v]
    /\ Called("parent_joint.set", m, "ok")
    /\ UNCHANGED <<store, name, side, mirror_type, module_mirror, owned_nodes,
                   module_type, placement_group, controls_group,
                   extras_group, deform_joints, placement_locators,
                   controllers, is_initialized, is_built, custom, node_name,
                   created_id>>

Update(m) == Free >= 2 /\ Done("update", m, update(Cur, m))

AddNode(m, role, object_id, description) ==
    /\ Free >= 1
    /\ Done("add_node", m,
            add_node(Cur, m, "transform", role, object_id, description, NoneRef))

AddDeformJoint(m, object_id, description) ==
    /\ Free >= 1
    /\ Done("_add_deform_joint", m,
            _add_deform_joint(Cur, m, NoneRef, object_id, description))

AddPlacementLocator(m, object_id, description) ==
    /\ Free >= 1
    /\ Done("_add_placement_locator", m,
            _add_placement_locator(Cur, m, description, object_id, NoneRef))

AddControl(m, dag_node) ==
    /\ Free >= 2
    /\ Done("add_control", m,
            add_control(Cur, m, obj_name[dag_node], NoneId, NoneStr))

Build(m) ==
    /\ Free >= 2 * Len(deform_joints[m])
    /\ Done("_build", m, _build(Cur, m))

Publish(m) == Done("publish", m, publish(Cur, m))

SetModuleMirror(m, value) ==
    /\ module_mirror[m] # value
    /\ Commit(module_mirror_set(Cur, m, value))
    /\ Called("module_mirror.set", m, "ok")

\* The axis the store gives the negative scale of a reflected matrix.
FlipAxes == 0..3

UpdateMirror(m) ==
    /\ Free >= 2
    /\ \E flip \in FlipAxes :
         Done("update_mirror", m, update_mirror(Cur, m, flip))

\* module.find_non_mirrored_parents()
FindNonMirroredParents(m) ==
    Returned("find_non_mirrored_parents", m,
             find_non_mirrored_parents(Cur, m, <<>>))

\* cmds.xform(node, matrix=mat, worldSpace=True) by the rigger who places
\* the node.
Place(node, mat) ==
    /\ world[node] # mat
    /\ world' = [world EXCEPT ![node] = mat]
    /\ Called("xform", obj_module[node], "ok")
    /\ UNCHANGED <<obj_name, obj_type, obj_parent, obj_module, obj_visible,
                   constraints, persistent_attrs, fields, node_name,
                   created_id>>

\* The rigger showing the extras group of a module.
ShowExtras(m) ==
    /\ ~obj_visible[extras_group[m]]
    /\ obj_visible' = [obj_visible EXCEPT ![extras_group[m]] = TRUE]
    /\ Called("setAttr", m, "ok")
    /\ UNCHANGED <<obj_name, obj_type, obj_parent, obj_module, constraints,
                   persistent_attrs, world, fields, node_name, created_id>>

\* module.custom.set(v): the editable field of the subclass.
SetCustom(m, v) ==
    /\ custom[m] # v
    /\ custom' = [custom EXCEPT ![Backing(Cur, m)] = v]
    /\ Called("custom.set", m, "ok")
    /\ UNCHANGED <<store, name, side, mirror_type, module_mirror, owned_nodes,
                   parent_joint, module_type, placement_group, controls_group,
                   extras_group, deform_joints, placement_locators,
                   controllers, is_initialized, is_built, node_name,
                   created_id>>

\* The calls a caller makes.  First creations: (name, side, rig, class);
\* the names of re-attaching constructions; the sides written to the side
\* field; the (object_id, description) pairs of _add_deform_joint.
FirstCreations ==
    {<<"arm", "L", TheRig, "Chain">>,
     <<"arm", "R", TheRig, "RigModule">>,
     <<"arm", "L", NoneRef, "Chain">>}
ReattachNames == {obj_name[i] : i \in {j \in BackingNodes : Len(obj_name[j]) = 3}}
InputSides == {"L", "R"}
JointArgs == {<<NoneId, NoneStr>>, <<0, "a">>}
FirstJoints == {deform_joints[m][1] : m \in {i \in Nodes : deform_joints[i] # <<>>}}

Next ==
    \/ \E a \in FirstCreations, pj \in {NoneRef} \cup FirstJoints :
            /\ a[3] = NoneRef => pj = NoneRef
            /\ Construct(<<a[1]>>, a[2], pj, a[3], a[4])
    \/ \E nm \in ReattachNames, cls \in Classes :
            Construct(nm, default_side, NoneRef, TheRig, cls)
    \/ \E m \in Modules, v \in BaseNames : SetName(m, <<v>>)
    \/ \E m \in Modules, v \in InputSides : SetSide(m, v)
    \/ \E m \in Modules : Update(m)
    \/ \E m \in Modules :
         \E v \in ({NoneRef} \cup FirstJoints) \ Range(deform_joints[m]) :
            SetParentJoint(m, v)
    \/ \E m \in Modules : AddNode(m, "grp", NoneId, "placement")
    \/ \E m \in Modules, a \in JointArgs : AddDeformJoint(m, a[1], a[2])
    \/ \E m \in Modules : AddPlacementLocator(m, NoneId, NoneStr)
    \/ \E m \in Modules :
         \E j \in {deform_joints[m][i] : i \in DOMAIN deform_joints[m]} :
            AddControl(m, j)
    \/ \E m \in Modules : Build(m)
    \/ \E m \in Modules : Publish(m)
    \/ \E m \in Modules : \E v \in Modules \ {m} : SetModuleMirror(m, v)
    \/ \E m \in Modules : UpdateMirror(m)

Spec == Init /\ [][Next]_vars

\* ------------------------------------------------- a tree of modules
\* Four Chain modules, each but the first given the joint of the one before
\* as its parent_joint: arm_M <- arm_L <- leg_L <- leg_R.
TreeScene ==
    Then(__init__(EmptyScene, <<"arm">>, "M", NoneRef, TheRig, "Chain"),
      LAMBDA a :
    Then(__init__(a.s, <<"arm">>, "L", NoneRef, TheRig, "Chain"),
      LAMBDA b :
    Then(__init__(b.s, <<"leg">>, "L", NoneRef, TheRig, "Chain"),
      LAMBDA c :
    Then(__init__(c.s, <<"leg">>, "R", NoneRef, TheRig, "Chain"),
      LAMBDA d :
    Ok([d.s EXCEPT !.parent_joint[b.ret] = d.s.deform_joints[a.ret][1],
                   !.parent_joint[c.ret] = d.s.deform_joints[b.ret][1],
                   !.parent_joint[d.ret] = d.s.deform_joints[c.ret][1]]))))).s

TreeInit == Start(TreeScene) /\ last = NoCall /\ steps = 0

\* The modules of the same name, on another side.
SameNamed(m) == {v \in Modules \ {m} : name[v] = name[m]}
TreeSides == {"M", "L"}

\* A call can still be made on the scene.
InScene == steps < SceneSteps

TreeNext ==
    \/ InScene /\ \E m \in Modules, v \in TreeSides : SetSide(m, v)
    \/ InScene /\ \E m \in Modules :
                    \E v \in SameNamed(m) : SetModuleMirror(m, v)
    \/ InScene /\ \E m \in Modules : SetParentJoint(m, NoneRef)
    \/ InScene /\ \E m \in Modules : FindNonMirroredParents(m)
    \/ InScene /\ \E m \in Modules : Publish(m)
    \/ InScene /\ \E m \in Modules : ShowExtras(m)

TreeSpec == TreeInit /\ [][TreeNext]_vars

\* ------------------------------------------------- a module and its mirror
RotY90 == <<<<0, 0, -1>>, <<0, 1, 0>>, <<1, 0, 0>>>>
RotZ90 == <<<<0, 1, 0>>, <<-1, 0, 0>>, <<0, 0, 1>>>>
\* Where the rigger places a node: at (5,0,0) turned a quarter about y, and
\* at (1,2,3) turned a quarter about z with scale (2,1,1).
Placements ==
    {Compose(<<1, 1, 1>>, RotY90, <<5, 0, 0>>),
     Compose(<<2, 1, 1>>, RotZ90, <<1, 2, 3>>)}
CustomValues == {NoneStr, "fk"}

\* Two Chain modules arm_L and arm_R, arm_L with a second deform joint,
\* arm_R with two placement locators and with arm_L as its module_mirror.
MirrorScene ==
    Then(__init__(EmptyScene, <<"arm">>, "L", NoneRef, TheRig, "Chain"),
      LAMBDA a :
    Then(__init__(a.s, <<"arm">>, "R", NoneRef, TheRig, "Chain"),
      LAMBDA b :
    Then(_add_deform_joint(b.s, a.ret, NoneRef, NoneId, NoneStr),
      LAMBDA c :
    Then(_add_placement_locator(c.s, b.ret, NoneStr, 0, NoneRef),
      LAMBDA d :
    Then(_add_placement_locator(d.s, b.ret, NoneStr, 1, NoneRef),
      LAMBDA e :
    Ok(module_mirror_set(e.s, b.ret, a.ret))))))).s

MirrorInit == Start(MirrorScene) /\ last = NoCall /\ steps = 0

\* The modules that are the mirror of another, and their placement nodes.
Sources == {module_mirror[m] : m \in Modules} \ {NoneRef}
PlacementNodes(m) == Range(deform_joints[m]) \cup Range(placement_locators[m])

MirrorNext ==
    \/ InScene /\ \E m \in Sources : \E n \in PlacementNodes(m) :
                    \E mat \in Placements : Place(n, mat)
    \/ InScene /\ \E m \in Sources, v \in MirrorTypes : SetMirrorType(m, v)
    \/ InScene /\ \E m \in Modules, v \in CustomValues : SetCustom(m, v)
    \/ InScene /\ \E m \in Modules : AddDeformJoint(m, NoneId, NoneStr)
    \/ InScene /\ \E m \in Modules : AddPlacementLocator(m, NoneId, NoneStr)
    \/ InScene /\ \E m \in Modules : UpdateMirror(m)

MirrorSpec == MirrorInit /\ [][MirrorNext]_vars

\* ---------------------------------------------------------------- claims
\* The identity (base_name, side) the name of node i encodes.
Decoded(i) == metadata_from_name(obj_name[i])
InSync(m) ==
    /\ Decoded(m).base_name = name[m]
    /\ Decoded(m).side = side[m]

\* C1 (build gating): update() on a module whose is_built flag is true
\* changes nothing: no node is renamed, created or reparented, no constraint
\* is deleted or recreated, no attribute is renamed, no field is written and
\* node_name stays, also when name or side differ from the node's name.
C1_BuildGating ==
    [][\A m \in Nodes :
         (last'.op = "update" /\ last'.m = m /\ is_built[m])
           => UNCHANGED <<store, fields, node_name, created_id>>]_vars

C1_Witness ==
    /\ last.op = "update" /\ last.err = "ok" /\ last.m # NoneRef
    /\ is_built[last.m]
    /\ ~InSync(last.m)

\* The name of node i re-encoded with the name and side fields of module m.
Reencoded(i, m) ==
    name_from_metadata([Decoded(i) EXCEPT !.base_name = name[m],
                                          !.side = side[m]])

\* C2 (rename consistency): an update() that completes on an unbuilt module
\* leaves the backing node and every owned node named by their old
\* role/description/id under the name and side fields, and every persistent
\* attribute whose prefix named a node X prefixed by X's name in the store.
C2_RenameConsistency ==
    [][\A m \in Modules :
         (last'.op = "update" /\ last'.m = m /\ last'.err = "ok"
            /\ ~is_built[m])
           => /\ obj_name'[m] = Reencoded(m, m)
              /\ \A n \in Range(owned_nodes[m]) : obj_name'[n] = Reencoded(n, m)
              /\ \A i \in DOMAIN persistent_attrs[m] :
                   LET X == Lookup(Cur, persistent_attrs[m][i][1])
                   IN  X # NoneRef
                         => persistent_attrs'[m][i][1] = obj_name'[X]]_vars

\* C3 (uniqueness enforcement): an add_node call whose role, object_id and
\* description encode, with the module's name and side, to a name that
\* exists raises ValueError, creates no node and leaves owned_nodes (and
\* everything else) as they were: one node has that name afterwards.  This
\* holds for the direct call and for the calls the two wrappers make.
C3_Collides(m, node_type, role, object_id, description) ==
    objExists(Cur, add_node_name(Cur, m, node_type, role, object_id,
                                 description))
C3_Refused(m, node_type, role, object_id, description) ==
    /\ last'.err = "ValueError"
    /\ UNCHANGED <<store, fields, node_name, created_id>>
    /\ Cardinality({i \in Nodes :
           obj_name'[i] = add_node_name(Cur, m, node_type, role, object_id,
                                        description)}) = 1
C3_UniquenessEnforced ==
    [][\A m \in Modules :
         /\ (AddNode(m, "grp", NoneId, "placement")
               /\ C3_Collides(m, "transform", "grp", NoneId, "placement"))
              => C3_Refused(m, "transform", "grp", NoneId, "placement")
         /\ \A a \in JointArgs :
              LET oid == IF a[1] = NoneId THEN Len(deform_joints[m]) ELSE a[1]
              IN  (AddDeformJoint(m, a[1], a[2])
                     /\ C3_Collides(m, "joint", "deform", oid, a[2]))
                    => C3_Refused(m, "joint", "deform", oid, a[2])
         /\ (AddPlacementLocator(m, NoneId, NoneStr)
               /\ C3_Collides(m, "locator", "placement", NoneId, NoneStr))
              => C3_Refused(m, "locator", "placement", NoneId, NoneStr)]_vars

C3_Witness ==
    /\ last.op = "add_node" /\ last.err = "ValueError"
    /\ \E i \in Range(owned_nodes[last.m]) :
           obj_name[i] = add_node_name(Cur, last.m, "transform", "grp", NoneId,
                                       "placement")

\* C4 (ownership): every node in deform_joints, placement_locators or
\* controllers of a module is in its owned_nodes.
C4_Ownership ==
    \A m \in Nodes :
        Range(deform_joints[m]) \cup Range(placement_locators[m])
            \cup Range(controllers[m]) \subseteq Range(owned_nodes[m])

C6_LocatorDefaultId ==
    \A m \in Nodes : \A i \in DOMAIN placement_locators[m] :
        created_id[placement_locators[m][i]] = i - 1

\* C7 (re-attach on construction): a constructor call for the name of a
\* backing node in the store creates no node and writes no field.
C7_ReattachWritesNothing ==
    [][\A nm \in ReattachNames, cls \in Classes :
         Construct(nm, default_side, NoneRef, TheRig, cls)
           => UNCHANGED <<store, fields, created_id>>]_vars

\* C8 (name uniqueness): no two modules have the same name field.
C8_NameUnique ==
    \A m1, m2 \in Modules : m1 # m2 => name[m1] # name[m2]

\* C9 (mirror type): a module whose _module_mirror is set has the
\* module_type persisted on the node it refers to.
C9_MirrorType ==
    \A m \in Modules :
        module_mirror[m] # NoneRef
          => module_type[m] = module_type[module_mirror[m]]

\* C11 (module_type immutability): the module_type of a node whose
\* is_initialized is true is the same after every step, constructor calls of
\* another class and update_mirror() included.
C11_ModuleTypeImmutable ==
    [][\A b \in Nodes :
         is_initialized[b] => module_type'[b] = module_type[b]]_vars

\* The constructor of another class re-attached to an initialized module.
C11_Witness ==
    /\ last.op = "__init__" /\ last.err = "ok" /\ last.m # NoneRef
    /\ is_initialized[last.m]
    /\ last.cls # module_type[last.m]

\* C13 (one-directional mirror link): an assignment A.module_mirror = B
\* changes the _module_mirror of A and nothing else, and at every moment
\* is_mirrored of a module is true exactly when its _module_mirror is set.
C13_OneDirectionalLink ==
    [][/\ \A m \in Modules :
            (last'.op = "module_mirror.set" /\ last'.m = m)
              => /\ \A x \in Nodes \ {m} :
                      module_mirror'[x] = module_mirror[x]
                 /\ UNCHANGED <<store, name, side, mirror_type, owned_nodes,
                                parent_joint, module_type, placement_group,
                                controls_group, extras_group, deform_joints,
                                placement_locators, controllers,
                                is_initialized, is_built, custom, node_name,
                                created_id>>
       /\ \A x \in Modules' :
            /\ is_mirrored(Cur', x).err = "ok"
            /\ is_mirrored(Cur', x).ret = (module_mirror'[x] # NoneRef)]_vars

\* A was given the mirror B, and B has none.
C13_Witness ==
    /\ last.op = "module_mirror.set" /\ last.m # NoneRef
    /\ module_mirror[last.m] # NoneRef
    /\ module_mirror[module_mirror[last.m]] = NoneRef
    /\ is_mirrored(Cur, last.m).ret = TRUE
    /\ is_mirrored(Cur, module_mirror[last.m]).ret = FALSE

\* C10 (is_built transitions): is_built changes only from false to true and
\* only in a _build() whose build() returned; a _build() whose build()
\* raised, as the base class's always does, leaves it, and no other call
\* writes it.
C10_IsBuiltTransitions ==
    [][\A m \in Nodes :
         /\ is_built'[m] # is_built[m]
              => /\ ~is_built[m] /\ is_built'[m]
                 /\ last'.op = "_build" /\ last'.m = m /\ last'.err = "ok"
         /\ (last'.op = "_build" /\ last'.m = m /\ last'.err # "ok")
              => is_built'[m] = is_built[m]
         /\ (last'.op = "_build" /\ last'.m = m
               /\ module_type[m] = "RigModule")
              => last'.err = "NotImplementedError"]_vars

C10_Witness ==
    /\ last.op = "_build" /\ last.err = "ok"
    /\ is_built[last.m]

\* The module object m stands on the backing node m.
HandleInv == \A m \in Modules : Backing(Cur, m) = m /\ is_initialized[m]

\* The utility nodes of a matrix constraint.
UtilityTypes == {"multMatrix", "decomposeMatrix"}

\* In the primed state, node m is driven by one constraint from joint j:
\* one decomposeMatrix on m, fed by one multMatrix, fed by j.
DrivenBy(m, j) ==
    /\ Len(constraints'[m]) = 1
    /\ LET d == constraints'[m][1]
       IN  /\ obj_type'[d] = "decomposeMatrix"
           /\ Len(constraints'[d]) = 1
           /\ obj_type'[constraints'[d][1]] = "multMatrix"
           /\ constraints'[constraints'[d][1]] = <<j>>

\* C18 (parent constraint recomputation): after update() on an unbuilt
\* module, and after a first construction, the backing node is driven by
\* exactly one constraint from parent_joint when it is set and by none when
\* it is unset, no other utility node is left in the scene, and every node
\* that was not a utility node is still there.
C18_ParentConstraint ==
    [][\A m \in Nodes :
         (/\ last'.m = m /\ last'.err = "ok"
          /\ \/ last'.op = "update" /\ ~is_built[m]
             \/ last'.op = "__init__" /\ ~is_initialized[m])
           => /\ IF parent_joint'[m] # NoneRef
                 THEN DrivenBy(m, parent_joint'[m])
                 ELSE constraints'[m] = <<>>
              /\ \A n \in Nodes :
                   obj_type[n] \notin UtilityTypes \cup {NoneStr}
                     => obj_type'[n] = obj_type[n]
              /\ \A n \in Nodes :
                   obj_type'[n] \in UtilityTypes
                     => \E b \in BackingNodes' :
                          /\ constraints'[b] # <<>>
                          /\ n \in {constraints'[b][1],
                                    constraints'[constraints'[b][1]][1]}]_vars

\* update() was called again on an unbuilt module with a parent_joint, and
\* its backing node has one constraint.
C18_Witness ==
    /\ last.op = "update" /\ last.err = "ok" /\ last.m # NoneRef
    /\ ~is_built[last.m]
    /\ parent_joint[last.m] # NoneRef
    /\ Len(constraints[last.m]) = 1
    /\ obj_type[constraints[last.m][1]] = "decomposeMatrix"

\* C12 (idempotent publish): publish() changes nothing but the visibility
\* of extras_group, which it leaves hidden, and a second publish() leaves
\* the state that the first one made.
C12_PublishIdempotent ==
    [][\A m \in Modules :
         (last'.op = "publish" /\ last'.m = m)
           => /\ last'.err = "ok"
              /\ obj_visible' = [obj_visible EXCEPT ![extras_group[m]] = FALSE]
              /\ UNCHANGED <<obj_name, obj_type, obj_parent, obj_module,
                             constraints, persistent_attrs, world, fields,
                             node_name, created_id>>
              /\ publish(Cur', m) = Ok(Cur')]_vars

\* publish() was called and the extras group is hidden.
C12_Witness ==
    /\ last.op = "publish" /\ last.err = "ok" /\ last.m # NoneRef
    /\ ~obj_visible[extras_group[last.m]]
    /\ is_initialized[last.m]

\* The module that owns the parent joint of module x.
ParentOf(x) ==
    IF parent_joint[x] = NoneRef THEN NoneRef ELSE obj_module[parent_joint[x]]
\* An ancestor at which the search stops: on side M, or mirrored.
Stops(a) == side[a] = "M" \/ module_mirror[a] # NoneRef
\* The chain of parents of x reaches an ancestor at which the search stops.
RECURSIVE ReachesStop(_)
ReachesStop(x) ==
    /\ ParentOf(x) # NoneRef
    /\ (Stops(ParentOf(x)) \/ ReachesStop(ParentOf(x)))
\* The ancestors of x below the first one at which the search stops.
RECURSIVE Below(_)
Below(x) ==
    IF ParentOf(x) = NoneRef \/ Stops(ParentOf(x)) THEN <<>>
    ELSE <<ParentOf(x)>> \o Below(ParentOf(x))

\* C14 (find_non_mirrored_parents result): when the chain of parents reaches
\* an ancestor on side M or mirrored, the call returns the ancestors below
\* that one, nearest first, none of them on side M or mirrored.
C14_NonMirroredParents ==
    (last.op = "find_non_mirrored_parents" /\ ReachesStop(last.m))
      => /\ last.err = "ok"
         /\ last.ret = Below(last.m)
         /\ \A i \in DOMAIN last.ret : ~Stops(last.ret[i])

\* A search that returned two ancestors.
C14_Witness ==
    /\ last.op = "find_non_mirrored_parents" /\ last.err = "ok"
    /\ ReachesStop(last.m)
    /\ Len(last.ret) = 2
    /\ last.ret[1] = ParentOf(last.m)

\* C20 (absent parent): when the chain of parents ends at a module without
\* parent_joint before any ancestor stops the search, the call raises; and
\* parent_module of a module without parent_joint returns None, no error.
C20_AbsentParentRaises ==
    /\ (last.op = "find_non_mirrored_parents" /\ ~ReachesStop(last.m))
         => last.err = "AttributeError" /\ last.ret = <<>>
    /\ \A x \in Modules :
         parent_joint[x] = NoneRef => parent_module(Cur, x) = Ret(Cur, NoneRef)

\* The search went up from a module with a parent and ended in the error.
C20_Witness ==
    /\ last.op = "find_non_mirrored_parents"
    /\ last.err = "AttributeError"
    /\ parent_joint[last.m] # NoneRef
    /\ ~ReachesStop(last.m)

\* The placement nodes of the mirror source of m and of m, in the order
\* update_mirror reads them, and the number of pairs.
OrigNodes(m) ==
    deform_joints[module_mirror[m]] \o placement_locators[module_mirror[m]]
NewNodes(m) == deform_joints[m] \o placement_locators[m]
NPairs(m) ==
    IF Len(OrigNodes(m)) < Len(NewNodes(m))
    THEN Len(OrigNodes(m)) ELSE Len(NewNodes(m))
\* update_mirror() has just returned on module m, whose mirror is set.
Mirrored(m) ==
    /\ last'.op = "update_mirror" /\ last'.m = m /\ last'.err = "ok"
    /\ module_mirror[m] # NoneRef
ReflectX(pos) == <<-pos[1], pos[2], pos[3]>>

\* C15 (mirror field sync): after update_mirror() every editable field but
\* name and side has the value it has on the mirror source, empty values
\* included, and name and side are as before.
C15_FieldSync ==
    [][\A m \in Modules :
         Mirrored(m)
           => /\ mirror_type'[m] = mirror_type[module_mirror[m]]
              /\ custom'[m] = custom[module_mirror[m]]
              /\ name'[m] = name[m] /\ side'[m] = side[m]]_vars

\* C16 (Orientation mirroring): with mirror_type Orientation, each paired
\* target ends at the source's world position with x negated, with the
\* source's own world rotation, and with scale (1,1,1).
C16_OrientationMirror ==
    [][\A m \in Modules :
         (Mirrored(m) /\ mirror_type'[m] = "Orientation")
           => \A i \in 1..NPairs(m) :
                LET src == world[OrigNodes(m)[i]]
                    tgt == world'[NewNodes(m)[i]]
                IN  /\ Position(tgt) = ReflectX(Position(src))
                    /\ Rotation(tgt, 0) = Rotation(src, 0)
                    /\ Scale(tgt, 0) = <<1, 1, 1>>]_vars

\* A source joint at (5,0,0) turned about y, its target at (-5,0,0) turned
\* the same way.
C16_Witness ==
    /\ last.op = "update_mirror" /\ last.err = "ok" /\ last.m # NoneRef
    /\ mirror_type[last.m] = "Orientation"
    /\ module_mirror[last.m] # NoneRef
    /\ \E i \in 1..NPairs(last.m) :
         /\ Position(world[OrigNodes(last.m)[i]]) = <<5, 0, 0>>
         /\ Position(world[NewNodes(last.m)[i]]) = <<-5, 0, 0>>
         /\ Rotation(world[NewNodes(last.m)[i]], 0) = RotY90

\* The matrix LocalReflect * orig * WorldReflect.
BehaviorMatrix(orig) ==
    MatMul(MatMul(local_reflexion_mat, orig), world_reflexion_mat)

\* C17 (Behavior mirroring): with mirror_type Behavior, each paired target
\* gets the world matrix LocalReflect * orig_world * WorldReflect with its
\* scale put to (1,1,1): the matrix itself when the source has scale
\* (1,1,1), the source's position with x negated in every case.
C17_BehaviorMirror ==
    [][\A m \in Modules :
         (Mirrored(m) /\ mirror_type'[m] = "Behavior")
           => \A i \in 1..NPairs(m) :
                LET src == world[OrigNodes(m)[i]]
                    tgt == world'[NewNodes(m)[i]]
                    refl == BehaviorMatrix(src)
                IN  /\ tgt = Compose(<<1, 1, 1>>, Rotation(refl, 0),
                                     Position(refl))
                    /\ Scale(src, 0) = <<1, 1, 1>> => tgt = refl
                    /\ Position(tgt) = ReflectX(Position(src))
                    /\ Scale(tgt, 0) = <<1, 1, 1>>]_vars

\* A source joint at (5,0,0) turned about y, its target at (-5,0,0) with the
\* reflected matrix.
C17_Witness ==
    /\ last.op = "update_mirror" /\ last.err = "ok" /\ last.m # NoneRef
    /\ mirror_type[last.m] = "Behavior"
    /\ module_mirror[last.m] # NoneRef
    /\ \E i \in 1..NPairs(last.m) :
         /\ Position(world[OrigNodes(last.m)[i]]) = <<5, 0, 0>>
         /\ Rotation(world[OrigNodes(last.m)[i]], 0) = RotY90
         /\ world[NewNodes(last.m)[i]]
              = BehaviorMatrix(world[OrigNodes(last.m)[i]])

\* C19 (positional pairing): update_mirror() on a module with a mirror
\* raises no error whatever the lengths of the two lists; the i-th node of
\* self is mirrored from the i-th node of the source, joint or locator; the
\* nodes past the shorter list, and the source's nodes, keep their matrices.
C19_PositionalPairing ==
    [][\A m \in Modules :
         (last'.op = "update_mirror" /\ last'.m = m
            /\ module_mirror[m] # NoneRef)
           => /\ last'.err = "ok"
              /\ \A i \in 1..NPairs(m) :
                   Position(world'[NewNodes(m)[i]])
                     = ReflectX(Position(world[OrigNodes(m)[i]]))
              /\ \A i \in DOMAIN NewNodes(m) :
                   i > NPairs(m)
                     => world'[NewNodes(m)[i]] = world[NewNodes(m)[i]]
              /\ \A i \in DOMAIN OrigNodes(m) :
                   world'[OrigNodes(m)[i]] = world[OrigNodes(m)[i]]]_vars

\* Lists of different lengths, and a placed source joint mirrored onto a
\* locator of self.
C19_Witness ==
    /\ last.op = "update_mirror" /\ last.err = "ok" /\ last.m # NoneRef
    /\ module_mirror[last.m] # NoneRef
    /\ Len(OrigNodes(last.m)) # Len(NewNodes(last.m))
    /\ \E i \in 1..NPairs(last.m) :
         /\ OrigNodes(last.m)[i] \in Range(deform_joints[module_mirror[last.m]])
         /\ NewNodes(last.m)[i] \in Range(placement_locators[last.m])
         /\ Position(world[OrigNodes(last.m)[i]]) # <<0, 0, 0>>
         /\ Position(world[NewNodes(last.m)[i]])
              = ReflectX(Position(world[OrigNodes(last.m)[i]]))

\* The state after one more update() on module m, called in the primed
\* state.
UpdatedAgain(m) == update(Cur', m)

\* C21 (update reaches a fixed point): after an update() that completes on an
\* unbuilt module, node_name decodes to the name and side fields and is the
\* name of the backing node in the store, and an update() called next
\* completes and changes the name of no node that stays in the scene and no
\* persistent attribute.
C21_UpdateFixedPoint ==
    [][\A m \in Modules :
         (last'.op = "update" /\ last'.m = m /\ last'.err = "ok"
            /\ ~is_built[m])
           => /\ WellFormed(node_name'[m])
              /\ metadata_from_name(node_name'[m]).base_name = name'[m]
              /\ metadata_from_name(node_name'[m]).side = side'[m]
              /\ obj_name'[m] = node_name'[m]
              /\ UpdatedAgain(m).err = "ok"
              /\ \A i \in Nodes :
                   obj_type'[i] \notin UtilityTypes
                     => UpdatedAgain(m).s.obj_name[i] = obj_name'[i]
              /\ UpdatedAgain(m).s.persistent_attrs = persistent_attrs'
              /\ UpdatedAgain(m).s.node_name = node_name']_vars

\* An update() has renamed a module to the base name leg, which no first
\* creation uses, with its owned nodes and its persistent attributes.
C21_Witness ==
    /\ last.op = "update" /\ last.err = "ok" /\ last.m # NoneRef
    /\ ~is_built[last.m]
    /\ name[last.m] = <<"leg">>
    /\ node_name[last.m] = <<"leg", side[last.m], "mod">>
    /\ owned_nodes[last.m] # <<>>
    /\ \A n \in Range(owned_nodes[last.m]) : obj_name[n][1] = "leg"
    /\ persistent_attrs[last.m] # <<>>
    /\ \A i \in DOMAIN persistent_attrs[last.m] :
         persistent_attrs[last.m][i][1][1] = "leg"
====
